---- MODULE Spec2Model ----
(***************************************************************************)
(* Model of python_sdk/client.py: the ComplianceClient constructor, its    *)
(* _request helper and the two public methods check and usage, together    *)
(* with the remote server and the network as the environment.              *)
(*                                                                         *)
(* Python values are tagged records, so that values of different Python    *)
(* types can be compared: None, bool, number, str, list, dict and the      *)
(* dataclass instances of the packet.                                      *)
(***************************************************************************)
EXTENDS Integers, Sequences, FiniteSets, TLC

\* ---- Bounds ----
\* longest content string handed to check
MaxLen == 2
\* number of check/usage invocations in one behaviour
MaxCalls == 2

\* ---- Python values ----
None == [t |-> "none"]
Bool(b) == [t |-> "bool", b |-> b]
Num(n) == [t |-> "num", n |-> n]
Str(s) == [t |-> "str", s |-> s]
List(l) == [t |-> "list", l |-> l]
Dict(d) == [t |-> "dict", d |-> d]

\* Python truth value of v (the test behind `not v` and `a or b`)
Truthy(v) ==
  CASE v.t = "none" -> FALSE
    [] v.t = "bool" -> v.b
    [] v.t = "num" -> v.n # 0
    [] v.t = "str" -> v.s # ""
    [] v.t = "chars" -> v.c # <<>>
    [] v.t = "list" -> v.l # <<>>
    [] v.t = "dict" -> DOMAIN v.d # {}
    [] OTHER -> TRUE

\* Python `a or b`
Or(a, b) == IF Truthy(a) THEN a ELSE b

\* A str on which the code works character by character is a sequence of
\* one-character strings (a longer element stands for a run of characters
\* that are neither whitespace nor "/").
Chars(c) == [t |-> "chars", c |-> c]

RECURSIVE Join(_)
\* the text of a character sequence
Join(c) == IF c = <<>> THEN "" ELSE Head(c) \o Join(Tail(c))

\* characters str.strip() removes
Whitespace == {" ", "\t"}

RECURSIVE lstrip(_, _)
lstrip(c, drop) ==
  IF c # <<>> /\ Head(c) \in drop THEN lstrip(Tail(c), drop) ELSE c

RECURSIVE rstrip(_, _)
rstrip(c, drop) ==
  IF c # <<>> /\ c[Len(c)] \in drop THEN rstrip(SubSeq(c, 1, Len(c) - 1), drop) ELSE c

\* str.strip(): leading and trailing whitespace removed
strip(c) == rstrip(lstrip(c, Whitespace), Whitespace)

\* ---- Results of a call ----
NoOutcome == [kind |-> "none", value |-> None, message |-> None, status |-> None, body |-> None]
Pending == [kind |-> "pending", value |-> None, message |-> None, status |-> None, body |-> None]
Return(v) == [kind |-> "return", value |-> v, message |-> None, status |-> None, body |-> None]
\* a raised builtin exception (ValueError, KeyError, TypeError): a message only
Raise(kind, message) ==
  [kind |-> kind, value |-> None, message |-> Str(message), status |-> None, body |-> None]

\* ComplianceClientError(message, status=None, body=None)
ComplianceClientError(message, status, body) ==
  [kind |-> "ComplianceClientError", value |-> None, message |-> message,
   status |-> status, body |-> body]

\* ---- The environment of the process and the constructor ----
\* os.getenv(name): None when the variable is unset
getenv(env, name) == IF name \in DOMAIN env THEN env[name] ELSE None

\* default_base of __init__
default_base == Chars(<<"http://localhost:4000">>)

\* default of the timeout parameter
DefaultTimeout == 10

\* the key taken from the argument alone
ResolveApiKey_ArgOnly(env, api_key) == api_key

\* ComplianceClient.__init__: the instance, or the ValueError raised
ResolveApiKey(env, api_key) == Or(api_key, getenv(env, "COMPLIANCE_API_KEY"))

ResolveBaseUrl(env, base_url) ==
  Chars(rstrip(Or(base_url, Or(getenv(env, "COMPLIANCE_API_URL"), default_base)).c, {"/"}))

__init__(env, api_key, base_url, timeout) ==
  IF ~Truthy(ResolveApiKey(env, api_key))
  THEN Raise("ValueError", "api_key is required (pass it explicitly or set COMPLIANCE_API_KEY).")
  ELSE Return([t |-> "ComplianceClient",
               api_key |-> ResolveApiKey(env, api_key),
               base_url |-> ResolveBaseUrl(env, base_url),
               timeout |-> timeout])

\* ---- The HTTP exchange ----
\* what requests.request is called with
HttpRequest(c, method, path, json_body) ==
  [method |-> method,
   url |-> Chars(c.base_url.c \o <<path>>),
   headers |-> [Authorization |-> "Bearer " \o c.api_key.s, ContentType |-> "application/json"],
   json |-> json_body,
   timeout |-> c.timeout]

NoRequest == [method |-> "none"]
NoNet == [kind |-> "none"]

\* the body of a response on the wire: no bytes, text that is not JSON, or
\* the JSON text of a document
EmptyBody == [enc |-> "empty"]
TextBody(s) == [enc |-> "text", text |-> s]
JsonBody(doc) == [enc |-> "json", doc |-> doc]

Response(status_code, body) == [kind |-> "response", status_code |-> status_code, body |-> body]
RequestException(cause) == [kind |-> "RequestException", cause |-> cause]

\* resp.text is the empty string
TextIsEmpty(body) == body.enc = "empty"

\* resp.json(), with the fallback of _request to the raw text on JSONDecodeError
ParseBody(body) ==
  IF TextIsEmpty(body) THEN None
  ELSE IF body.enc = "json" THEN body.doc
  ELSE Str(body.text)

\* requests.Response.ok: raise_for_status() does not raise, that is, the
\* status is not in 400..599
ok(status_code) == ~(400 =< status_code /\ status_code < 600)

\* the message of the error of a response that is not ok
ErrorMessage(data, status_code) ==
  Or(IF data.t = "dict"
       THEN Or(IF "error" \in DOMAIN data.d THEN data.d["error"] ELSE None,
               IF "message" \in DOMAIN data.d THEN data.d["message"] ELSE None)
       ELSE Bool(FALSE),
     Str("Request failed with status " \o ToString(status_code)))

\* ComplianceClient._request once requests.request has returned or raised:
\* the parsed data, or the ComplianceClientError raised
_request(req, n) ==
  IF n.kind = "RequestException"
  THEN ComplianceClientError(
         Str("Request to " \o Join(req.url.c) \o " failed: " \o n.cause), None, None)
  ELSE IF ~ok(n.status_code)
  THEN ComplianceClientError(ErrorMessage(ParseBody(n.body), n.status_code),
                             Num(n.status_code), ParseBody(n.body))
  ELSE Return(ParseBody(n.body))

\* ---- The dataclasses of the packet ----
\* a step that returns a value or raises
Ok(v) == [raised |-> "none", value |-> v, message |-> ""]
Err(kind, message) == [raised |-> kind, value |-> None, message |-> message]

\* data[key] for a str key
Subscript(data, key) ==
  IF data.t = "dict"
  THEN IF key \in DOMAIN data.d THEN Ok(data.d[key]) ELSE Err("KeyError", "'" \o key \o "'")
  ELSE IF data.t \in {"str", "list"}
  THEN Err("TypeError", "indices must be integers")
  ELSE Err("TypeError", "object is not subscriptable")

\* Cls(**kw) binds: kw is a mapping whose keys are exactly the fields of the
\* dataclass (no field has a default)
Binds(kw, fields) == kw.t = "dict" /\ DOMAIN kw.d = fields

BindError(cls, kw, fields) ==
  IF kw.t # "dict" THEN Err("TypeError", "argument after ** must be a mapping")
  ELSE IF fields \ DOMAIN kw.d # {}
  THEN Err("TypeError", cls \o ".__init__() missing required positional argument")
  ELSE Err("TypeError", cls \o ".__init__() got an unexpected keyword argument")

SafetyFields == {"score", "category", "flags"}
SafetyBlock(kw) ==
  IF Binds(kw, SafetyFields)
  THEN Ok([t |-> "SafetyBlock", score |-> kw.d["score"], category |-> kw.d["category"],
           flags |-> kw.d["flags"]])
  ELSE BindError("SafetyBlock", kw, SafetyFields)

\* positional mapping with assessment and reason exchanged
CopyrightBlock_Swapped(kw) ==
  IF kw.t = "dict" /\ DOMAIN kw.d = {"risk", "assessment", "reason"}
  THEN Ok([t |-> "CopyrightBlock", risk |-> kw.d["risk"], assessment |-> kw.d["reason"],
           reason |-> kw.d["assessment"]])
  ELSE Err("TypeError", "CopyrightBlock.__init__() argument mismatch")

CopyrightFields == {"risk", "assessment", "reason"}
CopyrightBlock(kw) ==
  IF Binds(kw, CopyrightFields)
  THEN Ok([t |-> "CopyrightBlock", risk |-> kw.d["risk"], assessment |-> kw.d["assessment"],
           reason |-> kw.d["reason"]])
  ELSE BindError("CopyrightBlock", kw, CopyrightFields)

PrivacyFields == {"piiDetected", "piiTypes", "notes"}
PrivacyBlock(kw) ==
  IF Binds(kw, PrivacyFields)
  THEN Ok([t |-> "PrivacyBlock", piiDetected |-> kw.d["piiDetected"],
           piiTypes |-> kw.d["piiTypes"], notes |-> kw.d["notes"]])
  ELSE BindError("PrivacyBlock", kw, PrivacyFields)

OverallFields == {"complianceScore", "recommendation", "notes"}
OverallBlock(kw) ==
  IF Binds(kw, OverallFields)
  THEN Ok([t |-> "OverallBlock", complianceScore |-> kw.d["complianceScore"],
           recommendation |-> kw.d["recommendation"], notes |-> kw.d["notes"]])
  ELSE BindError("OverallBlock", kw, OverallFields)

MetaFields == {"inputId", "checkedAt", "modelVersion"}
MetaBlock(kw) ==
  IF Binds(kw, MetaFields)
  THEN Ok([t |-> "MetaBlock", inputId |-> kw.d["inputId"], checkedAt |-> kw.d["checkedAt"],
           modelVersion |-> kw.d["modelVersion"]])
  ELSE BindError("MetaBlock", kw, MetaFields)

CompliancePacket(safety, copyright, privacy, overall, meta) ==
  [t |-> "CompliancePacket", safety |-> safety, copyright |-> copyright,
   privacy |-> privacy, overall |-> overall, meta |-> meta]

\* the five keys of the body, in the order check reads them
BlockKeys == <<"safety", "copyright", "privacy", "overall", "meta">>

\* Cls(**data[key]) for the block of that key
BuildBlock(data, key) ==
  LET sub == Subscript(data, key)
  IN IF sub.raised # "none" THEN sub
     ELSE CASE key = "safety" -> SafetyBlock(sub.value)
            [] key = "copyright" -> CopyrightBlock(sub.value)
            [] key = "privacy" -> PrivacyBlock(sub.value)
            [] key = "overall" -> OverallBlock(sub.value)
            [] key = "meta" -> MetaBlock(sub.value)

\* the part of check after _request: the dict is mapped block by block, and
\* the first block that fails raises
MapPacket(data) ==
  LET built == [i \in 1..Len(BlockKeys) |-> BuildBlock(data, BlockKeys[i])]
      failed == {i \in 1..Len(BlockKeys) : built[i].raised # "none"}
      first == CHOOSE i \in failed : \A j \in failed : i =< j
  IN IF failed # {}
     THEN Raise(built[first].raised, built[first].message)
     ELSE Return(CompliancePacket(built[1].value, built[2].value, built[3].value,
                                  built[4].value, built[5].value))

\* the declared type of each field of each block
FieldType ==
  [safety |-> [score |-> "float", category |-> "str", flags |-> "List[str]"],
   copyright |-> [risk |-> "float", assessment |-> "str", reason |-> "str"],
   privacy |-> [piiDetected |-> "bool", piiTypes |-> "List[str]", notes |-> "List[str]"],
   overall |-> [complianceScore |-> "float", recommendation |-> "str", notes |-> "List[str]"],
   meta |-> [inputId |-> "str", checkedAt |-> "str", modelVersion |-> "str"]]

\* ---- The inputs: what the caller passes and what the server answers ----
BlockNames == {BlockKeys[i] : i \in 1..Len(BlockKeys)}

\* two well-formed /check bodies (scores in hundredths)
Fixture1 ==
  [safety |-> [score |-> Num(12), category |-> Str("low_risk"),
               flags |-> List(<<Str("spam"), Str("ads")>>)],
   copyright |-> [risk |-> Num(5), assessment |-> Str("original"), reason |-> Str("no match")],
   privacy |-> [piiDetected |-> Bool(TRUE), piiTypes |-> List(<<Str("phone"), Str("email")>>),
                notes |-> List(<<>>)],
   overall |-> [complianceScore |-> Num(90), recommendation |-> Str("allow"),
                notes |-> List(<<Str("ok")>>)],
   meta |-> [inputId |-> Str("in_1"), checkedAt |-> Str("2024-01-01T00:00:00Z"),
             modelVersion |-> Str("v1")]]

Fixture2 ==
  [safety |-> [score |-> Num(0), category |-> Str("high_risk"), flags |-> List(<<>>)],
   copyright |-> [risk |-> Num(100), assessment |-> Str(""), reason |-> Str("lyrics")],
   privacy |-> [piiDetected |-> Bool(FALSE), piiTypes |-> List(<<>>),
                notes |-> List(<<Str("z"), Str("a")>>)],
   overall |-> [complianceScore |-> Num(0), recommendation |-> Str("block"),
                notes |-> List(<<>>)],
   meta |-> [inputId |-> Str(""), checkedAt |-> Str("2024-06-30T12:00:00Z"),
             modelVersion |-> Str("v2")]]

AsDoc(fx) == Dict([b \in DOMAIN fx |-> Dict(fx[b])])

\* a value of another JSON type than v
WrongValue(v) == IF v.t = "str" THEN Num(7) ELSE Str("high")

DropBlock(fx, b) == Dict([k \in DOMAIN fx \ {b} |-> Dict(fx[k])])
DropField(fx, b, f) ==
  Dict([k \in DOMAIN fx |->
          Dict(IF k = b THEN [g \in DOMAIN fx[k] \ {f} |-> fx[k][g]] ELSE fx[k])])
Mistype(fx, b, f) ==
  Dict([k \in DOMAIN fx |->
          Dict(IF k = b THEN [fx[k] EXCEPT ![f] = WrongValue(fx[k][f])] ELSE fx[k])])
ExtraField(fx, b) ==
  Dict([k \in DOMAIN fx |->
          Dict(IF k = b
               THEN [g \in DOMAIN fx[k] \cup {"extra"} |->
                       IF g = "extra" THEN Num(1) ELSE fx[k][g]]
               ELSE fx[k])])
NotAMapping(fx, b) == Dict([k \in DOMAIN fx |-> IF k = b THEN Num(3) ELSE Dict(fx[k])])
\* a list field whose elements are not strings
WrongElement(fx) ==
  Dict([k \in DOMAIN fx |->
          Dict(IF k = "safety" THEN [fx[k] EXCEPT !["flags"] = List(<<Num(1)>>)] ELSE fx[k])])

PacketDocs ==
  {AsDoc(Fixture1), AsDoc(Fixture2), WrongElement(Fixture1)}
  \cup {DropBlock(Fixture1, b) : b \in BlockNames}
  \cup UNION {{DropField(Fixture1, b, f) : f \in DOMAIN Fixture1[b]} : b \in BlockNames}
  \cup UNION {{Mistype(Fixture1, b, f) : f \in DOMAIN Fixture1[b]} : b \in BlockNames}
  \cup {ExtraField(Fixture1, b) : b \in BlockNames}
  \cup {NotAMapping(Fixture1, b) : b \in BlockNames}

\* JSON error bodies: each of error and message absent, null, empty or set
\* a key that is not in the document, a variable that is not set
Absent == [t |-> "absent"]

ErrorDoc(e, m) ==
  Dict([k \in {x \in {"error"} : e # Absent} \cup {x \in {"message"} : m # Absent} |->
          IF k = "error" THEN e ELSE m])

ErrorDocs ==
  {ErrorDoc(e, m) : e \in {Absent, None, Str(""), Str("invalid api key")},
                    m \in {Absent, Str(""), Str("try again later")}}

\* /usage bodies: the first is the example of the specification, the second
\* has a total that is not the sum and a recent list that is in no order
UsageDoc(total, allow, review, block, recent) ==
  Dict([summary |-> Dict([totalChecks |-> Num(total), allow |-> Num(allow),
                          review |-> Num(review), block |-> Num(block)]),
        recent |-> List(recent)])

RecentItem(id, recommendation) == Dict([id |-> Str(id), recommendation |-> recommendation])

UsageDocs ==
  {UsageDoc(3, 2, 1, 0, <<RecentItem("a1", Str("allow"))>>),
   UsageDoc(5, 2, 1, 0, <<RecentItem("b2", Str("review")), RecentItem("a1", None),
                          RecentItem("c3", Str("block"))>>),
   UsageDoc(0, 0, 0, 0, <<>>)}

OtherDocs == {None, Num(0), Str("oops"), List(<<Str("a")>>)}

Bodies ==
  {EmptyBody, TextBody("Bad Gateway")}
  \cup {JsonBody(d) : d \in PacketDocs \cup ErrorDocs \cup UsageDocs \cup OtherDocs}

Statuses == {200, 201, 304, 401, 500}

\* what the network hands back to requests.request
Nets ==
  {RequestException("timed out"), RequestException("connection refused")}
  \cup {Response(st, b) : st \in Statuses, b \in Bodies}

ContentChars == {" ", "a"}
Contents ==
  {None} \cup {Chars(c) : c \in UNION {[1..k -> ContentChars] : k \in 0..MaxLen}}

Environs ==
  {[k \in {x \in {"COMPLIANCE_API_KEY"} : key # Absent}
          \cup {x \in {"COMPLIANCE_API_URL"} : url # Absent} |->
      IF k = "COMPLIANCE_API_KEY" THEN key ELSE url] :
     key \in {Absent, Str(""), Str("cpk_env")},
     url \in {Absent, Chars(<<"http://env.example">>)}}

ApiKeyArgs == {None, Str(""), Str("cpk_arg")}
BaseUrlArgs == {None, Chars(<<"https://api.example", "/", "/">>)}
TimeoutArgs == {DefaultTimeout}

\* ---- The state ----
VARIABLES
  environ,   \* os.environ of the process
  ctorArgs,  \* the arguments ComplianceClient was called with
  init,      \* how the constructor ended
  client,    \* the ComplianceClient instance, None while there is none
  pc,        \* "idle", or "waiting" inside requests.request
  calls,     \* invocations of check and usage so far
  call,      \* the invocation in progress or last finished
  request,   \* the HTTP request of that invocation
  net,       \* what the network answered to it
  outcome,   \* what the invocation returned or raised
  sent,      \* HTTP requests issued so far (the counter of a network mock)
  accepted   \* invocations so far that were usage() or check of a non-blank string

vars == <<environ, ctorArgs, init, client, pc, calls, call, request, net, outcome, sent, accepted>>

NoCall == [op |-> "none", content |-> None]

Init ==
  /\ environ \in Environs
  /\ ctorArgs = None
  /\ init = NoOutcome
  /\ client = None
  /\ pc = "idle"
  /\ calls = 0
  /\ call = NoCall
  /\ request = NoRequest
  /\ net = NoNet
  /\ outcome = NoOutcome
  /\ sent = 0
  /\ accepted = 0

\* ComplianceClient(api_key, base_url, timeout)
Construct ==
  \E api_key \in ApiKeyArgs, base_url \in BaseUrlArgs, timeout \in TimeoutArgs :
    /\ init.kind = "none"
    /\ ctorArgs' = [api_key |-> api_key, base_url |-> base_url, timeout |-> timeout]
    /\ init' = __init__(environ, api_key, base_url, timeout)
    /\ client' = IF init'.kind = "return" THEN init'.value ELSE None
    /\ UNCHANGED <<environ, pc, calls, call, request, net, outcome, sent, accepted>>

\* the precondition without strip(): only the empty string is rejected
ContentRejected_NoStrip(content) == content.t # "chars" \/ content.c = <<>>

\* the precondition of check fails: not a str, or nothing left after strip()
ContentRejected(content) == content.t # "chars" \/ ~Truthy(Chars(strip(content.c)))

\* a str with a character that is not whitespace
NonBlank(content) ==
  content.t = "chars" /\ \E i \in 1..Len(content.c) : content.c[i] \notin Whitespace

\* client.check(content), up to the point where requests.request blocks
check ==
  \E content \in Contents :
    /\ pc = "idle" /\ client # None /\ calls < MaxCalls
    /\ calls' = calls + 1
    /\ call' = [op |-> "check", content |-> content]
    /\ net' = NoNet
    /\ accepted' = IF NonBlank(content) THEN accepted + 1 ELSE accepted
    /\ IF ContentRejected(content)
       THEN /\ outcome' = Raise("ValueError", "content must be a non-empty string")
            /\ request' = NoRequest
            /\ UNCHANGED <<pc, sent>>
       ELSE /\ request' = HttpRequest(client, "POST", "/check", Dict([content |-> content]))
            /\ sent' = sent + 1
            /\ pc' = "waiting"
            /\ outcome' = Pending
    /\ UNCHANGED <<environ, ctorArgs, init, client>>

\* usage that keeps the URL of the request as the new base URL
usage_KeepsUrl ==
  /\ pc = "idle" /\ client # None /\ calls < MaxCalls
  /\ calls' = calls + 1
  /\ call' = [op |-> "usage", content |-> None]
  /\ net' = NoNet
  /\ accepted' = accepted + 1
  /\ request' = HttpRequest(client, "GET", "/usage", None)
  /\ client' = [client EXCEPT !.base_url = request'.url]
  /\ sent' = sent + 1
  /\ pc' = "waiting"
  /\ outcome' = Pending
  /\ UNCHANGED <<environ, ctorArgs, init>>

\* client.usage(), up to the point where requests.request blocks
usage ==
  /\ pc = "idle" /\ client # None /\ calls < MaxCalls
  /\ calls' = calls + 1
  /\ call' = [op |-> "usage", content |-> None]
  /\ net' = NoNet
  /\ accepted' = accepted + 1
  /\ request' = HttpRequest(client, "GET", "/usage", None)
  /\ sent' = sent + 1
  /\ pc' = "waiting"
  /\ outcome' = Pending
  /\ UNCHANGED <<environ, ctorArgs, init, client>>

RECURSIVE Reverse(_)
Reverse(l) == IF l = <<>> THEN <<>> ELSE Append(Reverse(Tail(l)), Head(l))

\* usage that puts the recent list in the opposite order
Finish_Reversed(op, r) ==
  IF r.kind # "return" THEN r
  ELSE IF op = "check" THEN MapPacket(r.value)
  ELSE IF r.value.t = "dict" /\ "recent" \in DOMAIN r.value.d /\ r.value.d["recent"].t = "list"
  THEN Return(Dict([r.value.d EXCEPT !["recent"] = List(Reverse(r.value.d["recent"].l))]))
  ELSE r

\* what the invocation makes of the result of _request
Finish(op, r) ==
  IF r.kind # "return" THEN r
  ELSE IF op = "check" THEN MapPacket(r.value)
  ELSE r

\* a transport failure is retried once before it is reported
Complete_Retry ==
  \E n \in Nets :
    /\ pc = "waiting"
    /\ net' = n
    /\ outcome' = Finish(call.op, _request(request, n))
    /\ pc' = "idle"
    /\ sent' = IF n.kind = "RequestException" THEN sent + 1 ELSE sent
    /\ UNCHANGED <<environ, ctorArgs, init, client, calls, call, request, accepted>>

\* requests.request returns or raises, and the invocation runs to its end
Complete ==
  \E n \in Nets :
    /\ pc = "waiting"
    /\ net' = n
    /\ outcome' = Finish(call.op, _request(request, n))
    /\ pc' = "idle"
    /\ UNCHANGED <<environ, ctorArgs, init, client, calls, call, request, sent, accepted>>

Next == Construct \/ check \/ usage \/ Complete

Spec == Init /\ [][Next]_vars

TypeOK ==
  /\ pc \in {"idle", "waiting"}
  /\ calls \in 0..MaxCalls
  /\ sent \in 0..MaxCalls

\* ---- Vocabulary of the properties ----
\* an invocation has run to its end
Done == pc = "idle" /\ call.op # "none"

Is2xx(status_code) == 200 =< status_code /\ status_code < 300

\* a str that is empty or all whitespace
Blank(content) ==
  content.t = "chars" /\ \A i \in 1..Len(content.c) : content.c[i] \in Whitespace

\* v has the declared type ty
HasType(v, ty) ==
  CASE ty = "float" -> v.t = "num"
    [] ty = "str" -> v.t = "str"
    [] ty = "bool" -> v.t = "bool"
    [] ty = "List[str]" -> v.t = "list" /\ \A i \in 1..Len(v.l) : v.l[i].t = "str"

\* a body with the five blocks, each with exactly its fields, each of its type
WellFormedBody(body) ==
  /\ body.enc = "json"
  /\ body.doc.t = "dict"
  /\ BlockNames \subseteq DOMAIN body.doc.d
  /\ \A b \in BlockNames :
       /\ body.doc.d[b].t = "dict"
       /\ DOMAIN body.doc.d[b].d = DOMAIN FieldType[b]
       /\ \A f \in DOMAIN FieldType[b] : HasType(body.doc.d[b].d[f], FieldType[b][f])

\* a packet whose five blocks are present with every field of its type
WellTypedPacket(p) ==
  /\ p.t = "CompliancePacket"
  /\ \A b \in BlockNames : \A f \in DOMAIN FieldType[b] : HasType(p[b][f], FieldType[b][f])

\* the body of a response as the caller can expect to see it: the parsed
\* document, the raw text, or nothing
AsReceived(body) ==
  CASE body.enc = "json" -> body.doc
    [] body.enc = "text" -> Str(body.text)
    [] body.enc = "empty" -> None

\* the body is a JSON object whose field k is there and not empty
Usable(body, k) ==
  body.enc = "json" /\ body.doc.t = "dict" /\ k \in DOMAIN body.doc.d /\ Truthy(body.doc.d[k])

ExpectedMessage(body, status_code) ==
  IF Usable(body, "error") THEN body.doc.d["error"]
  ELSE IF Usable(body, "message") THEN body.doc.d["message"]
  ELSE Str("Request failed with status " \o ToString(status_code))

\* an API key that is there: a str that is not empty
Available(v) == v.t = "str" /\ v.s # ""

\* ---- Properties ----

\* C1: a check whose content is empty or only whitespace raises ValueError (the
\* invalid-argument error) in the step that invokes it, and that step issues
\* no HTTP request: the request counter is unchanged and nothing is in flight.
C1_BlankContentFailsFast ==
  [][(calls' = calls + 1 /\ call'.op = "check" /\ Blank(call'.content))
       => (outcome'.kind = "ValueError" /\ sent' = sent /\ pc' = "idle"
           /\ request' = NoRequest /\ net' = NoNet)]_vars

\* a check of a non-empty all-whitespace string was rejected after an earlier
\* invocation had sent its one request
C1_Witness ==
  /\ Done /\ call.op = "check" /\ Blank(call.content) /\ Len(call.content.c) > 0
  /\ outcome.kind = "ValueError" /\ calls = 2 /\ sent = 1

\* C2: a 2xx response to check whose body lacks a block, lacks a field or has
\* a field of the wrong type makes check raise (KeyError or TypeError, the
\* malformed-response errors), and every packet check returns has all its
\* fields of the declared types.
C2_MalformedBodyRejected ==
  (Done /\ call.op = "check" /\ net.kind = "response" /\ Is2xx(net.status_code))
    => /\ ~WellFormedBody(net.body) => outcome.kind \in {"KeyError", "TypeError"}
       /\ outcome.kind = "return" => WellTypedPacket(outcome.value)

\* C3: every response whose status is not 2xx makes the invocation raise a
\* ComplianceClientError whose status is that status, whose message is not
\* empty and whose body is the body received; it is never a returned result.
C3_Non2xxRaisesRemoteError ==
  (Done /\ net.kind = "response" /\ ~Is2xx(net.status_code))
    => /\ outcome.kind = "ComplianceClientError"
       /\ outcome.status = Num(net.status_code)
       /\ Truthy(outcome.message)
       /\ outcome.body = AsReceived(net.body)

\* C4: the error of a transport failure is a ComplianceClientError without a
\* status, and an error raised for a response that is not 2xx has a status.
C4_TransportErrorHasNoStatus ==
  /\ (Done /\ net.kind = "RequestException")
       => (outcome.kind = "ComplianceClientError" /\ outcome.status = None)
  /\ (Done /\ net.kind = "response" /\ ~Is2xx(net.status_code) /\ outcome.kind # "return")
       => outcome.status # None

\* C5: the constructor raises ValueError (the configuration error) exactly
\* when neither the api_key argument nor COMPLIANCE_API_KEY holds a key; no
\* instance exists then; otherwise the instance has the key of the argument
\* if that is given and the key of the environment variable if not.
C5_ConstructionNeedsApiKey ==
  init.kind # "none" =>
    LET envKey == IF "COMPLIANCE_API_KEY" \in DOMAIN environ
                  THEN environ["COMPLIANCE_API_KEY"] ELSE None
    IN /\ init.kind = "ValueError" <=> (~Available(ctorArgs.api_key) /\ ~Available(envKey))
       /\ init.kind = "ValueError" => client = None
       /\ init.kind # "ValueError" =>
            /\ client # None
            /\ client.api_key = IF Available(ctorArgs.api_key) THEN ctorArgs.api_key ELSE envKey

\* construction without argument and without environment variable has failed
C5_Witness ==
  /\ init.kind = "ValueError" /\ client = None
  /\ ctorArgs.api_key = None /\ "COMPLIANCE_API_KEY" \notin DOMAIN environ

\* C6: the number of HTTP requests sent equals the number of invocations that
\* were usage() or check of a non-blank string, and the step after a request
\* ends the invocation with its result without sending again.
C6_OneRequestPerInvocation ==
  /\ [](sent = accepted)
  /\ [][pc = "waiting" => (pc' = "idle" /\ sent' = sent /\ outcome'.kind # "pending")]_vars

\* two invocations, two requests, the second ended by a transport failure
C6_Witness ==
  /\ Done /\ calls = 2 /\ sent = 2 /\ accepted = 2
  /\ net.kind = "RequestException" /\ outcome.kind = "ComplianceClientError"

\* C7: for a well-formed 2xx body of /check, check returns a packet each of
\* whose fields equals the field of the same block and name in the body.
C7_CheckRoundTrip ==
  (Done /\ call.op = "check" /\ net.kind = "response" /\ Is2xx(net.status_code)
     /\ WellFormedBody(net.body))
    => /\ outcome.kind = "return"
       /\ outcome.value.t = "CompliancePacket"
       /\ \A b \in BlockNames : \A f \in DOMAIN FieldType[b] :
            outcome.value[b][f] = net.body.doc.d[b].d[f]

\* a packet was returned for the first fixture, its flags in the order sent
C7_Witness ==
  /\ Done /\ call.op = "check" /\ net.kind = "response" /\ net.status_code = 200
  /\ net.body = JsonBody(AsDoc(Fixture1))
  /\ outcome.kind = "return"
  /\ outcome.value.safety.flags = List(<<Str("spam"), Str("ads")>>)
  /\ outcome.value.copyright.reason = Str("no match")

\* C8: for a 2xx response to /usage with a JSON body, usage returns the
\* summary counts as received (the total not recomputed) and the recent list
\* with the same elements in the same order.
C8_UsagePassThrough ==
  (Done /\ call.op = "usage" /\ net.kind = "response" /\ Is2xx(net.status_code)
     /\ net.body.enc = "json")
    => /\ outcome.kind = "return"
       /\ (net.body.doc.t = "dict" /\ {"summary", "recent"} \subseteq DOMAIN net.body.doc.d)
            => /\ outcome.value.t = "dict"
               /\ outcome.value.d["summary"] = net.body.doc.d["summary"]
               /\ outcome.value.d["recent"].t = "list"
               /\ Len(outcome.value.d["recent"].l) = Len(net.body.doc.d["recent"].l)
               /\ \A i \in 1..Len(net.body.doc.d["recent"].l) :
                    outcome.value.d["recent"].l[i] = net.body.doc.d["recent"].l[i]

\* usage returned a body whose total is not the sum and whose recent list is
\* in no order
C8_Witness ==
  /\ Done /\ call.op = "usage" /\ net.kind = "response" /\ Is2xx(net.status_code)
  /\ outcome.kind = "return" /\ outcome.value.t = "dict"
  /\ "summary" \in DOMAIN outcome.value.d
  /\ outcome.value.d["summary"].d["totalChecks"] = Num(5)
  /\ outcome.value.d["summary"].d["allow"] = Num(2)
  /\ Len(outcome.value.d["recent"].l) = 3
  /\ outcome.value.d["recent"].l[1].d["id"] = Str("b2")

\* C9: once the client is constructed, no step changes its configuration
\* (api key, base URL, timeout) or the environment it was configured from.
C9_ConfigurationIsReadOnly ==
  [][client # None => (client' = client /\ environ' = environ /\ init' = init)]_vars

\* a second invocation has ended in an error, the client as constructed
C9_Witness ==
  /\ Done /\ calls = 2 /\ client # None /\ client = init.value
  /\ outcome.kind = "ComplianceClientError"

\* C10: the message of an error raised for a response with status N that is
\* not 2xx is the error field of a JSON object body if usable, else its
\* message field if usable, else "Request failed with status N".
C10_ErrorMessageChoice ==
  (Done /\ net.kind = "response" /\ ~Is2xx(net.status_code) /\ outcome.kind # "return")
    => outcome.message = ExpectedMessage(net.body, net.status_code)

====
